---------------------------- MODULE Spec2Model ----------------------------
(***************************************************************************)
(* A model of sodium's Driver (src/src/sodium/driver.py): the read         *)
(* accessors that query an Android device through adb and turn the text    *)
(* that comes back into typed values.                                      *)
(*                                                                         *)
(* Text is a sequence of tokens.  A token is either a single character or  *)
(* a literal of one of the accessors' patterns ("speaker=", "Max: ", ...). *)
(* An accessor is modelled as the coroutine its body is: given the replies *)
(* received so far in the invocation it either asks for the next command,  *)
(* returns a value or raises.                                              *)
(***************************************************************************)
EXTENDS Integers, Sequences, FiniteSets, TLC

VARIABLES
    status,     \* per caller thread: "idle", "inflight", "returned", "raised"
    acc,        \* per thread: the accessor being invoked ("none" when idle)
    log,        \* per thread: the commands executed in this invocation, with replies
    outcome,    \* per thread: what the invocation returned or raised
    channel,    \* the commands in flight on the Driver's adb device, by thread
    prev,       \* what the caller got from the last completed invocation
    self        \* the Driver instance's attributes

vars == <<status, acc, log, outcome, channel, prev, self>>

-----------------------------------------------------------------------------
(* Bounds *)

MaxStrLen == 1
MaxIntLen == 2
MaxPatLen == 3
MaxSsidLen == 4

Threads == {1, 2}
SeqThreads == {1}

-----------------------------------------------------------------------------
(* Text *)

RECURSIVE Texts(_, _)
Texts(alphabet, n) ==
    IF n = 0 THEN {<<>>}
    ELSE LET shorter == Texts(alphabet, n - 1)
         IN  shorter \cup {Append(s, c) : s \in {x \in shorter : Len(x) = n - 1}, c \in alphabet}

Digits == {"0", "1", "2", "3", "4", "5", "6", "7", "8", "9"}

DigitVal(c) ==
    CASE c = "0" -> 0 [] c = "1" -> 1 [] c = "2" -> 2 [] c = "3" -> 3 [] c = "4" -> 4
      [] c = "5" -> 5 [] c = "6" -> 6 [] c = "7" -> 7 [] c = "8" -> 8 [] c = "9" -> 9

NL == "\n"
QUOTE == "\""


-----------------------------------------------------------------------------
(* Values an accessor's evaluation produces.  "shell" asks for a command   *)
(* to be executed, "value" is an intermediate str, the others end the      *)
(* invocation.                                                             *)

NeedShell(cmdargs) == [kind |-> "shell", cmd |-> cmdargs]
Value(text) == [kind |-> "value", text |-> text]
Raise(exc) == [kind |-> "raise", exc |-> exc]
ReturnStr(text) == [kind |-> "str", str |-> text]
ReturnInt(n) == [kind |-> "int", int |-> n]
ReturnBool(b) == [kind |-> "bool", bool |-> b]
ReturnObj(text) == [kind |-> "obj", obj |-> text]
ReturnNone == [kind |-> "none"]
NoOutcome == [kind |-> "pending"]

(* What the adb device answers to one command: output text, or a failure   *)
(* (transport error, timeout) that adbutils raises.                        *)
Ok(text) == [ok |-> TRUE, text |-> text]
Failure == [ok |-> FALSE, text |-> <<>>]

-----------------------------------------------------------------------------
(* Python built-ins used by the accessors *)

IsDigits(s) == Len(s) >= 1 /\ \A i \in 1..Len(s) : s[i] \in Digits

RECURSIVE DecVal(_)
DecVal(s) == IF s = <<>> THEN 0 ELSE 10 * DecVal(SubSeq(s, 1, Len(s) - 1)) + DigitVal(s[Len(s)])

(* int(str): an optional sign, then one or more decimal digits; anything   *)
(* else raises ValueError.  (Surrounding whitespace and "_" between        *)
(* digits, which int() also accepts, are not in the modelled alphabets.)   *)
int_default(text) ==
    LET signed == text # <<>> /\ text[1] \in {"+", "-"}
        body == IF signed THEN Tail(text) ELSE text
    IN  IF IsDigits(body)
        THEN ReturnInt(IF signed /\ text[1] = "-" THEN 0 - DecVal(body) ELSE DecVal(body))
        ELSE ReturnInt(0)

int(text) ==
    LET signed == text # <<>> /\ text[1] \in {"+", "-"}
        body == IF signed THEN Tail(text) ELSE text
    IN  IF IsDigits(body)
        THEN ReturnInt(IF signed /\ text[1] = "-" THEN 0 - DecVal(body) ELSE DecVal(body))
        ELSE Raise("ValueError")

(* `lit in text` for the literals the accessors test *)
TokenHas(tok, lit) == tok = lit \/ (lit = "enable" /\ tok = "enabled")

contains(lit, text) == \E i \in 1..Len(text) : TokenHas(text[i], lit)

(* A match object, or None *)
Match(groups) == [matched |-> TRUE, groups |-> groups]
NoMatch == [matched |-> FALSE, groups |-> <<>>]

Min(S) == CHOOSE x \in S : \A y \in S : x <= y

RECURSIVE RunEnd(_, _)
RunEnd(text, i) == IF i <= Len(text) /\ text[i] \in Digits THEN RunEnd(text, i + 1) ELSE i - 1

(* re.search(lit + "([0-9]+)" + tail, text): the leftmost lit followed by  *)
(* digits; the group is the longest run of digits, which tail (a newline   *)
(* or nothing) must follow.                                                *)
re_search_digits(lit, tail, text) ==
    LET at == {i \in 1..(Len(text) - 1) :
                 /\ text[i] = lit
                 /\ text[i + 1] \in Digits
                 /\ (tail # "" => /\ RunEnd(text, i + 1) < Len(text)
                                  /\ text[RunEnd(text, i + 1) + 1] = tail)}
    IN  IF at = {} THEN NoMatch
        ELSE Match(<<SubSeq(text, Min(at) + 1, RunEnd(text, Min(at) + 1))>>)

(* re.search("mInputShown=(true|false)", text) *)
re_search_shown(text) ==
    LET at == {i \in 1..(Len(text) - 1) :
                 text[i] = "mInputShown=" /\ text[i + 1] \in {"true", "false"}}
    IN  IF at = {} THEN NoMatch ELSE Match(<<<<text[Min(at) + 1]>>>>)

(* re.search("name: (.+)\n", text): "." does not match a newline, so the   *)
(* greedy group runs to the first newline after it.                        *)
re_search_name(text) ==
    LET ends(i) == {j \in (i + 2)..Len(text) :
                      text[j] = NL /\ \A k \in (i + 1)..(j - 1) : text[k] # NL}
        at == {i \in 1..Len(text) : text[i] = "name: " /\ ends(i) # {}}
    IN  IF at = {} THEN NoMatch
        ELSE Match(<<SubSeq(text, Min(at) + 1, Min(ends(Min(at))) - 1)>>)

Keys == {"networkId=", "wifiNetworkKey="}

KeyName(tok) == IF tok = "networkId=" THEN <<"networkId">> ELSE <<"wifiNetworkKey">>

(* re.search('(networkId|wifiNetworkKey)="(.+?)"', text): the leftmost key *)
(* followed by a quote, one or more characters other than a newline (the   *)
(* lazy group takes as few as it can) and a quote.                         *)
re_search_ssid(text) ==
    LET ends(i) == {j \in (i + 3)..Len(text) :
                      text[j] = QUOTE /\ \A k \in (i + 2)..(j - 1) : text[k] # NL}
        at == {i \in 1..(Len(text) - 1) :
                 text[i] \in Keys /\ text[i + 1] = QUOTE /\ ends(i) # {}}
    IN  IF at = {} THEN NoMatch
        ELSE Match(<<KeyName(text[Min(at)]),
                     SubSeq(text, Min(at) + 2, Min(ends(Min(at))) - 1)>>)

(* m.group(n); on None the attribute access raises *)
group(m, n) == IF m.matched THEN Value(m.groups[n]) ELSE Raise("AttributeError")

-----------------------------------------------------------------------------
(* Driver.  Every accessor takes rs, the replies the device has given so   *)
(* far in this invocation, in the order the commands were executed.        *)

DriverAttrs == [name \in {"_driver", "_adb"} |->
                  IF name = "_driver" THEN "webdriver.Remote" ELSE "AdbDevice"]

(* The k-th command an accessor body executes: self.shell(cmdargs), which  *)
(* is self._adb.shell(cmdargs, timeout=timeout).  Not yet executed: ask    *)
(* for it; executed: its output, or the exception adbutils raised.         *)
shell(rs, k, cmdargs) ==
    IF Len(rs) < k THEN NeedShell(cmdargs)
    ELSE IF rs[k].ok THEN Value(rs[k].text)
    ELSE Raise("AdbError")

(* A call of a method of self._adb other than shell *)
adb(rs, k, method) ==
    IF Len(rs) < k THEN NeedShell(method)
    ELSE IF rs[k].ok THEN Value(rs[k].text)
    ELSE Raise("AdbError")

shell_no_fallback(rs, cmd1, cmd2) == shell(rs, 1, cmd1)

shell_both(rs, cmd1, cmd2) ==
    LET first == shell(rs, 1, cmd1)
        second == shell(rs, 2, cmd2)
    IN  IF first.kind # "value" THEN first
        ELSE IF second.kind # "value" THEN second
        ELSE IF first.text # <<>> THEN first
        ELSE second

shell_or_raise(rs, cmd1, cmd2) ==
    LET first == shell(rs, 1, cmd1)
        second == shell(rs, 2, cmd2)
    IN  IF first.kind # "value" THEN first
        ELSE IF first.text # <<>> THEN first
        ELSE IF second.kind = "value" /\ second.text = <<>> THEN Raise("PropertyUnavailable")
        ELSE second

(* self.shell(cmd1) or self.shell(cmd2): the second command is executed    *)
(* only when the first returned the empty str.                             *)
shell_or_shell(rs, cmd1, cmd2) ==
    LET first == shell(rs, 1, cmd1)
    IN  IF first.kind # "value" THEN first
        ELSE IF first.text # <<>> THEN first
        ELSE shell(rs, 2, cmd2)

bluetooth_on_substring(rs) ==
    LET out == shell(rs, 1, "settings get global bluetooth_on")
    IN  IF out.kind # "value" THEN out
        ELSE LET status_ == int(out.text)
             IN  IF status_.kind # "int" THEN status_
                 ELSE ReturnBool(contains("1", out.text))

bluetooth_on(rs) ==
    LET out == shell(rs, 1, "settings get global bluetooth_on")
    IN  IF out.kind # "value" THEN out
        ELSE LET status_ == int(out.text)
             IN  IF status_.kind # "int" THEN status_
                 ELSE ReturnBool(status_.int = 1)

wifi_on(rs) ==
    LET out == shell(rs, 1, "dumpsys wifi | grep \"Wi-Fi is\"")
    IN  IF out.kind # "value" THEN out ELSE ReturnBool(contains("enabled", out.text))

airplane_mode_on(rs) ==
    LET out == shell(rs, 1, "cmd connectivity airplane-mode")
    IN  IF out.kind # "value" THEN out ELSE ReturnBool(contains("enable", out.text))

is_ime_active(rs) ==
    LET out == shell(rs, 1, "dumpsys input_method | grep mInputShown")
    IN  IF out.kind # "value" THEN out
        ELSE LET value == group(re_search_shown(out.text), 1)
             IN  IF value.kind # "value" THEN value
                 ELSE ReturnBool(value.text = <<"true">>)

is_screen_on(rs) ==
    LET out == adb(rs, 1, "_adb.is_screen_on()")
    IN  IF out.kind # "value" THEN out ELSE ReturnObj(out.text)

get_brand(rs) ==
    LET brand == shell_or_shell(rs, "getprop persist.sys.romtype",
                                "getprop ro.product.manufacturer")
    IN  IF brand.kind # "value" THEN brand ELSE ReturnStr(brand.text)

get_orientation(rs) ==
    LET out == shell(rs, 1, "dumpsys input | grep SurfaceOrientation")
    IN  IF out.kind # "value" THEN out ELSE ReturnStr(out.text)

get_locale(rs) ==
    LET locale == shell_or_shell(rs, "getprop persist.sys.locale",
                                 "getprop ro.product.locale")
    IN  IF locale.kind # "value" THEN locale ELSE ReturnStr(locale.text)

get_system_version(rs) ==
    LET value == shell(rs, 1, "getprop ro.build.version.release")
    IN  IF value.kind # "value" THEN value ELSE int(value.text)

get_build_number(rs) ==
    LET value == shell(rs, 1, "getprop ro.fota.version")
    IN  IF value.kind # "value" THEN value ELSE ReturnStr(value.text)

get_device_model(rs) ==
    LET out == shell_or_shell(rs, "getprop persist.sys.device", "getprop ro.product.model")
    IN  IF out.kind # "value" THEN out ELSE ReturnStr(out.text)

get_packages(rs) ==
    LET out == adb(rs, 1, "_adb.list_packages()")
    IN  IF out.kind # "value" THEN out ELSE ReturnObj(out.text)

get_current_ime(rs) ==
    LET out == shell(rs, 1, "settings get secure default_input_method")
    IN  IF out.kind # "value" THEN out ELSE ReturnStr(out.text)

get_window_size(rs) ==
    LET rotation == adb(rs, 1, "_adb.rotation()")
    IN  IF rotation.kind # "value" THEN rotation
        ELSE LET size == IF rotation.text = <<"0">>
                         THEN adb(rs, 2, "_adb._raw_window_size()")
                         ELSE adb(rs, 2, "_adb.window_size()")
             IN  IF size.kind # "value" THEN size ELSE ReturnObj(size.text)

get_screen_timeout(rs) ==
    LET out == shell(rs, 1, "dumpsys power | grep  mScreenOffTimeoutSetting")
    IN  IF out.kind # "value" THEN out
        ELSE LET value == group(re_search_digits("mScreenOffTimeoutSetting=", "", out.text), 1)
             IN  IF value.kind # "value" THEN value ELSE int(value.text)

get_max_volume_level(rs) ==
    LET out == shell(rs, 1, "dumpsys audio | grep -A 5 \"STREAM_MUSIC\"")
    IN  IF out.kind # "value" THEN out
        ELSE LET value == group(re_search_digits("Max: ", NL, out.text), 1)
             IN  IF value.kind # "value" THEN value ELSE int(value.text)

get_max_notification_level(rs) ==
    LET out == shell(rs, 1,
                     "dumpsys audio | grep -E \"AUDIO_STREAM_RING|STREAM_NOTIFICATION\" -A 5")
    IN  IF out.kind # "value" THEN out
        ELSE LET value == group(re_search_digits("Max: ", NL, out.text), 1)
             IN  IF value.kind # "value" THEN value ELSE int(value.text)

get_volume_music_speaker(rs) ==
    LET out == shell(rs, 1, "settings list system | grep volume_music_speaker")
    IN  IF out.kind # "value" THEN out
        ELSE LET value == group(re_search_digits("speaker=", "", out.text), 1)
             IN  IF value.kind # "value" THEN value ELSE int(value.text)

get_volume_notification_speaker(rs) ==
    LET out == shell_or_shell(rs, "settings list system | grep volume_ring_speaker",
                              "settings list system | grep volume_notification_speaker")
    IN  IF out.kind # "value" THEN out
        ELSE LET value == group(re_search_digits("speaker=", "", out.text), 1)
             IN  IF value.kind # "value" THEN value ELSE int(value.text)

get_current_ssid_group1(rs) ==
    LET out == shell(rs, 1, "dumpsys netstats | grep -E \"iface=wlan\"")
    IN  IF out.kind # "value" THEN out
        ELSE LET m == re_search_ssid(out.text)
             IN  IF ~m.matched THEN ReturnNone ELSE ReturnStr(group(m, 1).text)

get_current_ssid(rs) ==
    LET out == shell(rs, 1, "dumpsys netstats | grep -E \"iface=wlan\"")
    IN  IF out.kind # "value" THEN out
        ELSE LET m == re_search_ssid(out.text)
             IN  IF ~m.matched THEN ReturnNone ELSE ReturnStr(group(m, 2).text)

get_wlan_ip(rs) ==
    LET out == adb(rs, 1, "_adb.wlan_ip()")
    IN  IF out.kind # "value" THEN out ELSE ReturnObj(out.text)

get_bluetooth_name(rs) ==
    LET out == shell(rs, 1, "dumpsys bluetooth_manager")
    IN  IF out.kind # "value" THEN out
        ELSE LET value == group(re_search_name(out.text), 1)
             IN  IF value.kind # "value" THEN value ELSE ReturnStr(value.text)

get_screen_brightness(rs) ==
    LET out == shell(rs, 1, "settings get system screen_brightness")
    IN  IF out.kind # "value" THEN out ELSE int(out.text)

get_app_info(rs) ==
    LET out == adb(rs, 1, "_adb.app_info(package_name)")
    IN  IF out.kind # "value" THEN out ELSE ReturnObj(out.text)

get_current_app(rs) ==
    LET out == adb(rs, 1, "_adb.app_current()")
    IN  IF out.kind # "value" THEN out ELSE ReturnObj(out.text)

(* Driver.shell called by the user of the Driver, with a command of theirs *)
shell_passthrough(rs) ==
    LET out == shell(rs, 1, "cmdargs")
    IN  IF out.kind # "value" THEN out ELSE ReturnStr(out.text)

-----------------------------------------------------------------------------
(* The invocation of accessor a, resumed with the replies rs *)

ShellAccessors ==
    {"bluetooth_on", "wifi_on", "airplane_mode_on", "is_ime_active", "get_brand",
     "get_orientation", "get_locale", "get_system_version", "get_build_number",
     "get_device_model", "get_current_ime", "get_screen_timeout", "get_max_volume_level",
     "get_max_notification_level", "get_volume_music_speaker",
     "get_volume_notification_speaker", "get_current_ssid", "get_bluetooth_name",
     "get_screen_brightness", "shell"}

AdbAccessors ==
    {"is_screen_on", "get_packages", "get_window_size", "get_wlan_ip", "get_app_info",
     "get_current_app"}

Accessors == ShellAccessors \cup AdbAccessors

Dispatch(a, rs) ==
    CASE a = "bluetooth_on" -> bluetooth_on(rs)
      [] a = "wifi_on" -> wifi_on(rs)
      [] a = "airplane_mode_on" -> airplane_mode_on(rs)
      [] a = "is_ime_active" -> is_ime_active(rs)
      [] a = "is_screen_on" -> is_screen_on(rs)
      [] a = "get_brand" -> get_brand(rs)
      [] a = "get_orientation" -> get_orientation(rs)
      [] a = "get_locale" -> get_locale(rs)
      [] a = "get_system_version" -> get_system_version(rs)
      [] a = "get_build_number" -> get_build_number(rs)
      [] a = "get_device_model" -> get_device_model(rs)
      [] a = "get_packages" -> get_packages(rs)
      [] a = "get_current_ime" -> get_current_ime(rs)
      [] a = "get_window_size" -> get_window_size(rs)
      [] a = "get_screen_timeout" -> get_screen_timeout(rs)
      [] a = "get_max_volume_level" -> get_max_volume_level(rs)
      [] a = "get_max_notification_level" -> get_max_notification_level(rs)
      [] a = "get_volume_music_speaker" -> get_volume_music_speaker(rs)
      [] a = "get_volume_notification_speaker" -> get_volume_notification_speaker(rs)
      [] a = "get_current_ssid" -> get_current_ssid(rs)
      [] a = "get_wlan_ip" -> get_wlan_ip(rs)
      [] a = "get_bluetooth_name" -> get_bluetooth_name(rs)
      [] a = "get_screen_brightness" -> get_screen_brightness(rs)
      [] a = "get_app_info" -> get_app_info(rs)
      [] a = "get_current_app" -> get_current_app(rs)
      [] a = "shell" -> shell_passthrough(rs)

Step_cached(a, rs) ==
    IF rs = <<>> /\ prev.acc = a /\ prev.outcome.kind \notin {"pending", "raise"}
    THEN prev.outcome
    ELSE Dispatch(a, rs)

(* Calling a method of the Driver evaluates its body; nothing but the      *)
(* replies of this invocation enters.                                      *)
Step(a, rs) == Dispatch(a, rs)

-----------------------------------------------------------------------------
(* The device: the texts it may answer to each command *)

StrTexts == Texts({"a", "b"}, MaxStrLen)
IntTexts == Texts({"0", "1", "+", "-", "N"}, MaxIntLen)
SpeakerTexts == Texts({"speaker=", "1", "x"}, MaxPatLen)
MaxTexts == Texts({"Max: ", "1", NL}, MaxPatLen)
TimeoutTexts == Texts({"mScreenOffTimeoutSetting=", "1", "x"}, MaxPatLen)
ShownTexts == Texts({"mInputShown=", "true", "false"}, MaxPatLen)
NameTexts == Texts({"name: ", "a", NL}, MaxPatLen)
EnabledTexts == Texts({"enabled", "disabled", "x"}, MaxPatLen)
SsidTexts == Texts({"networkId=", "wifiNetworkKey=", QUOTE, "a", NL}, MaxSsidLen)

ReplyTexts(cmd) ==
    CASE cmd \in {"settings get global bluetooth_on", "getprop ro.build.version.release",
                  "settings get system screen_brightness"} -> IntTexts
      [] cmd \in {"settings list system | grep volume_music_speaker",
                  "settings list system | grep volume_ring_speaker",
                  "settings list system | grep volume_notification_speaker"} -> SpeakerTexts
      [] cmd \in {"dumpsys audio | grep -A 5 \"STREAM_MUSIC\"",
                  "dumpsys audio | grep -E \"AUDIO_STREAM_RING|STREAM_NOTIFICATION\" -A 5"}
           -> MaxTexts
      [] cmd = "dumpsys power | grep  mScreenOffTimeoutSetting" -> TimeoutTexts
      [] cmd = "dumpsys input_method | grep mInputShown" -> ShownTexts
      [] cmd = "dumpsys bluetooth_manager" -> NameTexts
      [] cmd \in {"dumpsys wifi | grep \"Wi-Fi is\"", "cmd connectivity airplane-mode"}
           -> EnabledTexts
      [] cmd = "dumpsys netstats | grep -E \"iface=wlan\"" -> SsidTexts
      [] cmd = "_adb.rotation()" -> {<<"0">>, <<"1">>}
      [] OTHER -> StrTexts

-----------------------------------------------------------------------------
(* State machine *)

Replies(lg) == [i \in 1..Len(lg) |-> lg[i].reply]

InFlight(t) == {e \in channel : e.thread = t}

Finished(t) == status[t] \in {"returned", "raised"}

Init ==
    /\ status = [t \in Threads |-> "idle"]
    /\ acc = [t \in Threads |-> "none"]
    /\ log = [t \in Threads |-> <<>>]
    /\ outcome = [t \in Threads |-> NoOutcome]
    /\ channel = {}
    /\ prev = [acc |-> "none", outcome |-> NoOutcome]
    /\ self = DriverAttrs

(* The invocation on thread t runs on from the replies in lg: to its next  *)
(* command, which goes out on the device, or to its end.                   *)
Resume(t, a, lg) ==
    LET st == Step(a, Replies(lg))
    IN  /\ acc' = [acc EXCEPT ![t] = a]
        /\ log' = [log EXCEPT ![t] = lg]
        /\ status' = [status EXCEPT ![t] =
                        IF st.kind = "shell" THEN "inflight"
                        ELSE IF st.kind = "raise" THEN "raised" ELSE "returned"]
        /\ outcome' = [outcome EXCEPT ![t] = IF st.kind = "shell" THEN NoOutcome ELSE st]
        /\ channel' = IF st.kind = "shell"
                      THEN (channel \ InFlight(t)) \cup {[thread |-> t, cmd |-> st.cmd]}
                      ELSE channel \ InFlight(t)
        /\ UNCHANGED <<prev, self>>

(* A caller invokes accessor a *)
Call(t, a) ==
    /\ status[t] = "idle"
    /\ Resume(t, a, <<>>)

(* The command in flight completes with output text *)
RecvOk(t, text) ==
    /\ status[t] = "inflight"
    /\ \E e \in InFlight(t) :
         /\ text \in ReplyTexts(e.cmd)
         /\ Resume(t, acc[t], Append(log[t], [cmd |-> e.cmd, reply |-> Ok(text)]))

(* The command in flight fails: adbutils raises *)
RecvFail(t) ==
    /\ status[t] = "inflight"
    /\ \E e \in InFlight(t) :
         Resume(t, acc[t], Append(log[t], [cmd |-> e.cmd, reply |-> Failure]))

(* The caller takes the result (or the exception) of the invocation *)
Return(t) ==
    /\ Finished(t)
    /\ prev' = [acc |-> acc[t], outcome |-> outcome[t]]
    /\ status' = [status EXCEPT ![t] = "idle"]
    /\ acc' = [acc EXCEPT ![t] = "none"]
    /\ log' = [log EXCEPT ![t] = <<>>]
    /\ outcome' = [outcome EXCEPT ![t] = NoOutcome]
    /\ UNCHANGED <<channel, self>>

(* The texts the device may answer to what thread t has in flight *)
PendingTexts(t) == UNION {ReplyTexts(e.cmd) : e \in InFlight(t)}

(* One caller: invocations follow one another *)
Next ==
    \E t \in SeqThreads :
        \/ \E a \in Accessors : Call(t, a)
        \/ \E text \in PendingTexts(t) : RecvOk(t, text)
        \/ RecvFail(t)
        \/ Return(t)

Spec == Init /\ [][Next]_vars

(* Two callers share the Driver *)
ConcAccessors == {"get_brand", "shell"}

NextConc ==
    \E t \in Threads :
        \/ \E a \in ConcAccessors : Call(t, a)
        \/ \E text \in PendingTexts(t) : RecvOk(t, text)
        \/ RecvFail(t)
        \/ Return(t)

SpecConc == Init /\ [][NextConc]_vars

-----------------------------------------------------------------------------
(* Properties *)

TwoCommand == {"get_brand", "get_locale", "get_device_model",
               "get_volume_notification_speaker"}

StringTwoCommand == {"get_brand", "get_locale", "get_device_model"}

FirstCmd(a) ==
    CASE a = "get_brand" -> "getprop persist.sys.romtype"
      [] a = "get_locale" -> "getprop persist.sys.locale"
      [] a = "get_device_model" -> "getprop persist.sys.device"
      [] a = "get_volume_notification_speaker"
           -> "settings list system | grep volume_ring_speaker"

SecondCmd(a) ==
    CASE a = "get_brand" -> "getprop ro.product.manufacturer"
      [] a = "get_locale" -> "getprop ro.product.locale"
      [] a = "get_device_model" -> "getprop ro.product.model"
      [] a = "get_volume_notification_speaker"
           -> "settings list system | grep volume_notification_speaker"

(* The k-th command of the invocation on t was executed and gave output *)
Got(t, k) == Len(log[t]) >= k /\ log[t][k].reply.ok

Out(t, k) == log[t][k].reply.text

(* "speaker=" followed by digits occurs in text *)
SpeakerMatches(text) == re_search_digits("speaker=", "", text).matched

SpeakerValue(text) == DecVal(re_search_digits("speaker=", "", text).groups[1])

(* What a two-command accessor makes of the output V it settles on *)
DerivedFrom(a, V) ==
    IF a \in StringTwoCommand THEN ReturnStr(V)
    ELSE IF SpeakerMatches(V) THEN ReturnInt(SpeakerValue(V))
    ELSE Raise("AttributeError")

Usable(a, V) == V # <<>> /\ (a \notin StringTwoCommand => SpeakerMatches(V))

(* C1: when the first command of a two-command accessor succeeds with      *)
(* empty output, the finished invocation has executed the first command    *)
(* once and then the second command once, and when the second gave a       *)
(* usable value V the result is derived from V.                            *)
FallbackOnEmpty ==
    \A t \in Threads :
        (Finished(t) /\ acc[t] \in TwoCommand /\ Got(t, 1) /\ Out(t, 1) = <<>>)
        => /\ Len(log[t]) = 2
           /\ log[t][1].cmd = FirstCmd(acc[t])
           /\ log[t][2].cmd = SecondCmd(acc[t])
           /\ (Got(t, 2) /\ Usable(acc[t], Out(t, 2))
                 => outcome[t] = DerivedFrom(acc[t], Out(t, 2)))

(* C1 witness: the volume accessor returned the integer of its second      *)
(* command after an empty first output.                                    *)
FallbackOnEmptyWitness ==
    \E t \in Threads :
        /\ status[t] = "returned"
        /\ acc[t] = "get_volume_notification_speaker"
        /\ Got(t, 1) /\ Out(t, 1) = <<>>
        /\ Got(t, 2) /\ Out(t, 2) = <<"speaker=", "1", "1">>
        /\ outcome[t] = ReturnInt(11)

(* C2 as claimed: when the first command of a two-command accessor fails,  *)
(* the finished invocation has still executed the second command, and      *)
(* returns what a usable second output gives.                              *)
CommandFailureFallsThrough ==
    \A t \in Threads :
        (Finished(t) /\ acc[t] \in TwoCommand /\ Len(log[t]) >= 1 /\ ~log[t][1].reply.ok)
        => /\ Len(log[t]) = 2
           /\ log[t][2].cmd = SecondCmd(acc[t])
           /\ (Got(t, 2) /\ Usable(acc[t], Out(t, 2))
                 => outcome[t] = DerivedFrom(acc[t], Out(t, 2)))

(* C3: once the first command of a two-command accessor has given a        *)
(* non-empty V1, the invocation is over: the second command is not         *)
(* executed or in flight, and the result is derived from V1.               *)
FirstSuccessShortCircuit ==
    \A t \in Threads :
        (acc[t] \in TwoCommand /\ Got(t, 1) /\ Out(t, 1) # <<>>)
        => /\ Finished(t)
           /\ Len(log[t]) = 1
           /\ log[t][1].cmd = FirstCmd(acc[t])
           /\ InFlight(t) = {}
           /\ outcome[t] = DerivedFrom(acc[t], Out(t, 1))

(* C3 witness: get_device_model returned its first command's output *)
FirstSuccessWitness ==
    \E t \in Threads :
        /\ status[t] = "returned"
        /\ acc[t] = "get_device_model"
        /\ Got(t, 1) /\ Out(t, 1) = <<"a">>
        /\ outcome[t] = ReturnStr(<<"a">>)
        /\ Len(log[t]) = 1

(* C4 as claimed: when the first output of                                 *)
(* get_volume_notification_speaker is non-empty and the pattern does not   *)
(* match it, the invocation goes on to the second command and returns the  *)
(* integer of a matching second output.                                    *)
NoMatchFallsThrough ==
    \A t \in Threads :
        (/\ Finished(t)
         /\ acc[t] = "get_volume_notification_speaker"
         /\ Got(t, 1) /\ Out(t, 1) # <<>> /\ ~SpeakerMatches(Out(t, 1)))
        => /\ Len(log[t]) = 2
           /\ log[t][2].cmd = SecondCmd(acc[t])
           /\ (Got(t, 2) /\ SpeakerMatches(Out(t, 2))
                 => outcome[t] = ReturnInt(SpeakerValue(Out(t, 2))))

IntAccessors ==
    {"get_system_version", "get_screen_brightness", "bluetooth_on", "get_screen_timeout",
     "get_max_volume_level", "get_max_notification_level", "get_volume_music_speaker",
     "get_volume_notification_speaker"}

DirectInt == {"get_system_version", "get_screen_brightness", "bluetooth_on"}

(* The match of accessor a's pattern in text *)
PatternMatch(a, text) ==
    CASE a = "get_screen_timeout" -> re_search_digits("mScreenOffTimeoutSetting=", "", text)
      [] a \in {"get_max_volume_level", "get_max_notification_level"}
           -> re_search_digits("Max: ", NL, text)
      [] OTHER -> re_search_digits("speaker=", "", text)

(* Accessor a has a value to coerce in output text, and which *)
HasCoerced(a, text) == IF a \in DirectInt THEN text # <<>> ELSE PatternMatch(a, text).matched

Coerced(a, text) == IF a \in DirectInt THEN text ELSE PatternMatch(a, text).groups[1]

(* An optional sign and one or more decimal digits *)
Base10(v) ==
    \E body \in {v} \cup (IF v # <<>> /\ v[1] \in {"+", "-"} THEN {Tail(v)} ELSE {}) :
        body # <<>> /\ \A i \in 1..Len(body) : body[i] \in Digits

(* C5: when an integer accessor's command gave output whose value to       *)
(* coerce is present and not a base-10 integer, the invocation raised      *)
(* ValueError, and that command is the last one it executed.               *)
CoercionHardFailure ==
    \A t \in Threads :
        \A k \in 1..Len(log[t]) :
            (/\ acc[t] \in IntAccessors
             /\ Got(t, k)
             /\ HasCoerced(acc[t], Out(t, k))
             /\ ~Base10(Coerced(acc[t], Out(t, k))))
            => /\ k = Len(log[t])
               /\ status[t] = "raised"
               /\ outcome[t] = Raise("ValueError")
               /\ InFlight(t) = {}

(* C5 witness: get_screen_brightness raised on the output "N" *)
CoercionHardFailureWitness ==
    \E t \in Threads :
        /\ status[t] = "raised"
        /\ acc[t] = "get_screen_brightness"
        /\ Got(t, 1) /\ Out(t, 1) = <<"N">>
        /\ outcome[t] = Raise("ValueError")

(* The places <<i, j>> of text where a key, a quote, a non-empty X and a   *)
(* quote stand: the key at i, the closing quote at j.  X is free of        *)
(* newlines when oneLine.                                                  *)
Occurrences(text, oneLine) ==
    {p \in (1..Len(text)) \X (1..Len(text)) :
        /\ text[p[1]] \in Keys
        /\ p[1] + 3 <= p[2]
        /\ text[p[1] + 1] = QUOTE
        /\ text[p[2]] = QUOTE
        /\ (oneLine => \A k \in (p[1] + 2)..(p[2] - 1) : text[k] # NL)}

FirstOccurrence(S) ==
    CHOOSE p \in S : \A q \in S : p[1] < q[1] \/ (p[1] = q[1] /\ p[2] <= q[2])

QuotedValue(text, p) == SubSeq(text, p[1] + 2, p[2] - 1)

NoKey(text) == \A i \in 1..Len(text) : text[i] \in Keys => (i = Len(text) \/ text[i + 1] # QUOTE)

SsidTotal(oneLine) ==
    \A t \in Threads :
        (Finished(t) /\ acc[t] = "get_current_ssid")
        => /\ Len(log[t]) = 1
           /\ Got(t, 1) =>
                /\ status[t] = "returned"
                /\ Occurrences(Out(t, 1), oneLine) # {}
                     => outcome[t] = ReturnStr(QuotedValue(Out(t, 1),
                                           FirstOccurrence(Occurrences(Out(t, 1), oneLine))))
                /\ NoKey(Out(t, 1)) => outcome[t] = ReturnNone

DenotesOne(v) ==
    LET body == IF v # <<>> /\ v[1] = "+" THEN Tail(v) ELSE v
    IN  /\ body # <<>>
        /\ body[Len(body)] = "1"
        /\ \A i \in 1..(Len(body) - 1) : body[i] = "0"

(* C7 as claimed: on an integer token bluetooth_on is true for the token   *)
(* "1" and false for every other token.                                    *)
BluetoothExactToken ==
    \A t \in Threads :
        (Finished(t) /\ acc[t] = "bluetooth_on" /\ Got(t, 1) /\ Base10(Out(t, 1)))
        => outcome[t] = ReturnBool(Out(t, 1) = <<"1">>)

(* C7 as amended: on an integer token bluetooth_on is true when the token  *)
(* denotes the integer 1 and false when it denotes another integer.        *)
BluetoothExactValue ==
    \A t \in Threads :
        (Finished(t) /\ acc[t] = "bluetooth_on" /\ Got(t, 1) /\ Base10(Out(t, 1)))
        => outcome[t] = ReturnBool(DenotesOne(Out(t, 1)))

(* C7 witness: the output "10", which contains "1", gave false *)
BluetoothWitness ==
    \E t \in Threads :
        /\ status[t] = "returned"
        /\ acc[t] = "bluetooth_on"
        /\ Got(t, 1) /\ Out(t, 1) = <<"1", "0">>
        /\ outcome[t] = ReturnBool(FALSE)

(* C8: when both commands of a string two-command accessor gave empty      *)
(* output, the invocation returned the empty string, having executed the   *)
(* first command and then the second, once each.                           *)
ExhaustionReturnsEmpty ==
    \A t \in Threads :
        (/\ acc[t] \in StringTwoCommand
         /\ Got(t, 1) /\ Out(t, 1) = <<>>
         /\ Got(t, 2) /\ Out(t, 2) = <<>>)
        => /\ status[t] = "returned"
           /\ outcome[t] = ReturnStr(<<>>)
           /\ Len(log[t]) = 2
           /\ log[t][1].cmd = FirstCmd(acc[t])
           /\ log[t][2].cmd = SecondCmd(acc[t])
           /\ InFlight(t) = {}

(* C8 witness: get_locale returned "" after two empty outputs *)
ExhaustionWitness ==
    \E t \in Threads :
        /\ status[t] = "returned"
        /\ acc[t] = "get_locale"
        /\ Len(log[t]) = 2
        /\ Out(t, 1) = <<>> /\ Out(t, 2) = <<>>
        /\ outcome[t] = ReturnStr(<<>>)

PassThrough == {"get_orientation", "get_build_number", "get_current_ime", "shell"}

(* C9: a finished invocation has executed at least one command of its own, *)
(* its result is determined by the replies of this invocation (for the     *)
(* accessors that hand the output on, it is the output just received), and *)
(* the Driver's attributes are those its constructor set.                  *)
NoCaching ==
    /\ self = DriverAttrs
    /\ \A t \in Threads :
         Finished(t)
         => /\ Len(log[t]) >= 1
            /\ outcome[t] = Step(acc[t], Replies(log[t]))
            /\ (acc[t] \in PassThrough /\ Got(t, 1)) => outcome[t] = ReturnStr(Out(t, 1))

(* C9 witness: get_build_number, called again after the device's output    *)
(* changed, returned the new output.                                       *)
NoCachingWitness ==
    \E t \in Threads :
        /\ status[t] = "returned"
        /\ acc[t] = "get_build_number"
        /\ prev = [acc |-> "get_build_number", outcome |-> ReturnStr(<<"a">>)]
        /\ Got(t, 1) /\ Out(t, 1) = <<"b">>
        /\ outcome[t] = ReturnStr(<<"b">>)

(* C10 as claimed: at most one command is in flight on the Driver's adb    *)
(* device at any time.                                                     *)
CommandsSerialized == Cardinality(channel) <= 1

=============================================================================
